---- MODULE Spec2Model ----
(***************************************************************************)
(* The notification history provider of                                    *)
(* internal/providers/notifications/setup.go: the history store (history,   *)
(* nextID, config), its persistence file, the bus service's mode and the    *)
(* host-facing Activate handler.                                            *)
(*                                                                          *)
(* uint32 values are kept at their full width as pairs <<hi, lo>> of 16-bit *)
(* halves (value = hi * 65536 + lo), so that nextID++ and id + 1 wrap at    *)
(* 2^32 exactly as in the program.                                          *)
(*                                                                          *)
(* time.Now() is a clock whose successive readings are strictly increasing  *)
(* (nanosecond readings taken one after another under the store lock, and   *)
(* a wall clock that is not set back between two runs of the process).      *)
(***************************************************************************)
EXTENDS Integers, Sequences, FiniteSets, TLC

(* ------------------------------ bounds --------------------------------- *)

\* largest small value a client sends as replaces_id (0 .. MaxRepID, and 2^32-1)
MaxRepID == 1
\* largest config.MaxItems the model tries (1 .. MaxItemsCap)
MaxItemsCap == 2
\* last clock reading the model lets time.Now() return
MaxTime == 4
\* number of process restarts the model follows
MaxRestarts == 1
\* number of `go saveToFile()` goroutines that may be waiting to run
MaxPending == 1

(* ------------------------------ uint32 --------------------------------- *)

\* 2^16: a uint32 is <<hi, lo>> with hi, lo in 0 .. Half - 1
Half == 65536

U32(hi, lo) == <<hi, lo>>
Zero == U32(0, 0)
One == U32(0, 1)
MaxUint32 == U32(Half - 1, Half - 1)

\* v + 1 in uint32 arithmetic (wraps to 0 after 2^32 - 1)
Inc(v) ==
    IF v[2] < Half - 1 THEN U32(v[1], v[2] + 1)
    ELSE IF v[1] < Half - 1 THEN U32(v[1] + 1, 0)
    ELSE Zero

Lt(a, b) == a[1] < b[1] \/ (a[1] = b[1] /\ a[2] < b[2])
Gt(a, b) == Lt(b, a)
Ge(a, b) == ~Lt(a, b)

(* ------------------------------ inputs --------------------------------- *)

\* the replaces_id values clients send
RepIDs == {U32(0, n) : n \in 0 .. MaxRepID} \cup {MaxUint32}

\* the (summary, body, hints) clients send; the hints are kept as the set of
\* the dynamic types Variant.Value() gives their values (none here)
Payloads == {<<"s1", "b1", {}>>}

\* the identifier strings the host passes to Activate, as character sequences:
\* "1" and "4294967295"
Identifiers ==
    { <<"1">>, <<"4", "2", "9", "4", "9", "6", "7", "2", "9", "5">> }

ActionDismiss == "dismiss"
ActionDismissAll == "dismiss_all"
ActionCopy == "copy"
ActionCopyBody == "copy_body"

\* the action strings the host passes to Activate: the two that change the store
ActionInputs == {ActionDismiss, ActionDismissAll}

(* --------------------------- strconv.ParseUint -------------------------- *)

DigitChars == <<"0", "1", "2", "3", "4", "5", "6", "7", "8", "9">>
IsDigit(c) == \E d \in 1 .. 10 : DigitChars[d] = c
DigitVal(c) == (CHOOSE d \in 1 .. 10 : DigitChars[d] = c) - 1

\* v * 10 + d on a uint32; ok is FALSE when the result passes 2^32 - 1
MulAdd10(v, d) ==
    LET lo == v[2] * 10 + d
        hi == v[1] * 10 + (lo \div Half)
    IN  [ok |-> hi < Half, val |-> U32(hi % Half, lo % Half)]

RECURSIVE ParseDigits(_, _, _)
ParseDigits(s, i, acc) ==
    IF i > Len(s) THEN [err |-> "nil", val |-> acc]
    ELSE IF ~IsDigit(s[i]) THEN [err |-> "syntax", val |-> Zero]
    ELSE LET r == MulAdd10(acc, DigitVal(s[i]))
         IN  IF r.ok THEN ParseDigits(s, i + 1, r.val)
             ELSE [err |-> "range", val |-> MaxUint32]

\* strconv.ParseUint(identifier, 10, 32)
ParseUint(s) ==
    IF Len(s) = 0 THEN [err |-> "syntax", val |-> Zero]
    ELSE ParseDigits(s, 1, Zero)

(* ------------------------------- state --------------------------------- *)

VARIABLES
    history,       \* map[uint32]*Notification: a function from IDs to records
    nextID,        \* the ID counter
    config,        \* [MaxItems, Persist]
    now,           \* the last reading time.Now() returned
    file,          \* the cache file: [exists, data], data the encoded mapping
    pendingSaves,  \* `go saveToFile()` goroutines spawned and not yet run
    mode,          \* the bus service: "uninitialized", then "unavailable",
                   \* "primary" or "passive"
    clipboard,     \* what was last piped to wl-copy (<<>> when nothing was)
    restarts,      \* number of restarts of the process so far
    last,          \* the last operation: what it was given, did and returned
    issued,        \* IDs returned by storeNotification in this process
    everAssigned,  \* IDs returned by storeNotification in any run of the process
    out,           \* what the last handler call did outside the store: signals
                   \* emitted, messages sent on handlers.ProviderUpdated,
                   \* saveToFile calls made or spawned, copyToClipboard calls,
                   \* and the value it returned to the host
    mu,            \* the sync.RWMutex: [writer, readers]
    pc,            \* where each goroutine is in the function it runs
    loc            \* each goroutine's local variables

vars == <<history, nextID, config, now, file, pendingSaves, mode, clipboard,
          restarts, last, issued, everAssigned, out, mu, pc, loc>>

\* the goroutines' side of the state
conc == <<mu, pc, loc>>

EmptyHistory == [id \in {} |-> 0]

Len_(h) == Cardinality(DOMAIN h)

(* ---------------------------- the map ops ------------------------------ *)

\* history[id] = n
Put(h, id, n) == [k \in (DOMAIN h) \cup {id} |-> IF k = id THEN n ELSE h[k]]

\* a delete that empties the map when the key is absent
DeleteOrReset(h, id) ==
    IF id \in DOMAIN h THEN [k \in (DOMAIN h) \ {id} |-> h[k]] ELSE EmptyHistory

\* delete(history, id)
Delete(h, id) == [k \in (DOMAIN h) \ {id} |-> h[k]]

\* history = make(map[uint32]*Notification)
MakeMap == EmptyHistory

(* --------------------------- storeNotification -------------------------- *)

\* an assignment that honours replacesID only when it is below the counter
AssignIDBelowCounter(replacesID, nid) ==
    IF Gt(replacesID, Zero) /\ Lt(replacesID, nid) THEN replacesID ELSE nid

\* the ID a notification is stored under: replacesID when nonzero, else nextID
AssignID(replacesID, nid) == IF Gt(replacesID, Zero) THEN replacesID ELSE nid

\* the counter after the assignment: nextID++ only on the else branch
AdvanceNextID(replacesID, nid) == IF Gt(replacesID, Zero) THEN nid ELSE Inc(nid)

\* &Notification{...}: the texts and hints as received, Time: time.Now()
NewNotification(id, p, t) ==
    [ID |-> id, Summary |-> p[1], Body |-> p[2], Hints |-> p[3], Time |-> t]

\* len(history) > config.MaxItems
OverLimit(h, maxItems) == Len_(h) > maxItems

\* the values oldestID can hold after trimHistory's loop, read at clock t: 0 when
\* no record is Before(t), else a record of least Time (the map is ranged over in
\* any order, and only a strictly earlier Time replaces the one held)
OldestIDs(h, t) ==
    LET older == {k \in DOMAIN h : h[k].Time < t}
    IN  IF older = {} THEN {Zero}
        ELSE {k \in older : \A j \in older : h[k].Time <= h[j].Time}

\* if oldestID > 0 { delete(history, oldestID) }
DeleteOldest(h, oldestID) == IF Gt(oldestID, Zero) THEN Delete(h, oldestID) ELSE h

\* the maps trimHistory can leave
TrimHistory(h, t) == {DeleteOldest(h, o) : o \in OldestIDs(h, t)}

(* ----------------------------- persistence ----------------------------- *)

\* encoder.Encode(history): the stream carries one (key, record) pair per entry
GobEncode(h) == {<<k, h[k]>> : k \in DOMAIN h}

\* decoder.Decode(&history): every pair of the stream is set in the map given
GobDecode(data, into) ==
    [k \in (DOMAIN into) \cup {e[1] : e \in data} |->
        IF \E e \in data : e[1] = k
        THEN (CHOOSE e \in data : e[1] = k)[2]
        ELSE into[k]]

\* the concrete types encoding/gob can send as an interface value without a
\* gob.Register call (the program makes none): the basic types and their slices
GobRegistered == {"string", "bool", "int32", "uint32", "uint8", "[]uint8", "[]string"}

\* encoder.Encode(history) returns no error: every hint value is of such a type
GobEncodable(h) == \A k \in DOMAIN h : h[k].Hints \subseteq GobRegistered

NoFile == [exists |-> FALSE, data |-> {}]

\* saveToFile: os.WriteFile(file, encoded history)
SaveToFile(h) == [exists |-> TRUE, data |-> GobEncode(h)]

\* the file a whole saveToFile() call leaves: it returns before the write when
\* the encoding fails
SaveResult(h, f) == IF GobEncodable(h) THEN SaveToFile(h) ELSE f

\* the file after a handler's `if config.Persist { saveToFile() }`
SavedIfPersist(cfg, h, f) == IF cfg.Persist THEN SaveResult(h, f) ELSE f

\* the scan with `id > nextID` in place of `id >= nextID`
RECURSIVE ScanNextIDStrict(_, _)
ScanNextIDStrict(ids, nid) ==
    IF ids = {} THEN {nid}
    ELSE UNION {ScanNextIDStrict(ids \ {k}, IF Gt(k, nid) THEN Inc(k) ELSE nid) :
                   k \in ids}

\* loadFromFile's loop `if id >= nextID { nextID = id + 1 }` over the keys in any
\* order: the values nextID can end with
RECURSIVE ScanNextID(_, _)
ScanNextID(ids, nid) ==
    IF ids = {} THEN {nid}
    ELSE UNION {ScanNextID(ids \ {k}, IF Ge(k, nid) THEN Inc(k) ELSE nid) : k \in ids}

\* loadFromFile's map: the decoded file when it exists
LoadHistory(f, into) == IF f.exists THEN GobDecode(f.data, into) ELSE into

\* loadFromFile's counters: the scan runs only when the file exists
LoadNextIDs(f, h, nid) == IF f.exists THEN ScanNextID(DOMAIN h, nid) ELSE {nid}

(* ------------------------------ the ghost ------------------------------ *)

\* the record of an operation: op names it; replacesID, arg and action are what
\* it was given; ret is the ID and err the error it returned or logged; pre, preNext and preIssued are history,
\* nextID and issued when it started; mid is history right after
\* `history[id] = notification`, before the trim
Op(op, replacesID, arg, action, ret, err, mid) ==
    [op |-> op, replacesID |-> replacesID, arg |-> arg, action |-> action,
     ret |-> ret, err |-> err, mid |-> mid, pre |-> history, preNext |-> nextID,
     preIssued |-> issued, preFile |-> file, preClipboard |-> clipboard,
     preConfig |-> config]

\* a handler call that emitted, sent, saved, copied and returned nothing
NoOut == [emitted |-> <<>>, updated |-> <<>>, saves |-> 0, copies |-> 0,
          reply |-> <<>>]

\* an emission with reason 1 (expired) in place of 3 (closed by a call)
EmitClosedExpired(id) == <<[name |-> "NotificationClosed", id |-> id, reason |-> 1]>>

\* conn.Emit(dbusPath, dbusInterface+".NotificationClosed", id, uint32(3))
EmitClosed(id) == <<[name |-> "NotificationClosed", id |-> id, reason |-> 3]>>

(* ---------------------------- the goroutines ---------------------------- *)

\* the goroutines followed step by step: two bus calls being handled, one host
\* request, and two `go saveToFile()` goroutines
BusCalls == {"bus1", "bus2"}
HostCalls == {"host"}
Savers == {"save1", "save2"}
Goroutines == BusCalls \cup HostCalls \cup Savers

\* the zero value of sync.RWMutex: no writer, no reader
Unlocked == [writer |-> "", readers |-> {}]

\* a goroutine outside any function of the package
Idle == [g \in Goroutines |-> "idle"]
NoLocals == [g \in Goroutines |-> [fn |-> "", id |-> Zero, buf |-> {}, sent |-> 0]]

(* -------------------------------- Init --------------------------------- *)

\* the configurations Setup() loads: max_items at least 1, persist on or off
Configs == [MaxItems : 1 .. MaxItemsCap, Persist : BOOLEAN]

\* the process right after its first Setup(): no cache file yet, nextID = 1
Init ==
    /\ history = MakeMap
    /\ nextID = One
    /\ config \in Configs
    /\ now = 0
    /\ file = NoFile
    /\ pendingSaves = 0
    /\ mode = "uninitialized"
    /\ clipboard = <<>>
    /\ restarts = 0
    /\ last = [op |-> "setup", replacesID |-> Zero, arg |-> <<>>, action |-> "",
               ret |-> Zero, err |-> "nil", mid |-> MakeMap, pre |-> MakeMap, preNext |-> One,
               preIssued |-> {}, preFile |-> NoFile, preClipboard |-> <<>>,
               preConfig |-> config]
    /\ issued = {}
    /\ everAssigned = {}
    /\ out = NoOut
    /\ mu = Unlocked
    /\ pc = Idle
    /\ loc = NoLocals

(* ----------------------------- the bus side ---------------------------- *)

\* startDBusServer: dbus.ConnectSessionBus() returns an error, and the function
\* returns; no method is exported and no signal listened for
ConnectFails ==
    /\ mode = "uninitialized"
    /\ mode' = "unavailable"
    /\ last' = Op("start", Zero, <<>>, "bus_error", Zero, "error", history)
    /\ UNCHANGED <<history, nextID, config, now, file, pendingSaves, clipboard,
                   restarts, issued, everAssigned, out>>
    /\ UNCHANGED conc

\* startDBusServer: the bus is connected, conn.RequestName(...) returns an
\* error, and the function returns as above
RequestFails ==
    /\ mode = "uninitialized"
    /\ mode' = "unavailable"
    /\ last' = Op("start", Zero, <<>>, "request_error", Zero, "error", history)
    /\ UNCHANGED <<history, nextID, config, now, file, pendingSaves, clipboard,
                   restarts, issued, everAssigned, out>>
    /\ UNCHANGED conc

\* startDBusServer: the name is granted and the server exported
BecomePrimary ==
    /\ mode = "uninitialized"
    /\ mode' = "primary"
    /\ last' = Op("start", Zero, <<>>, "primary_owner", Zero, "nil", history)
    /\ UNCHANGED <<history, nextID, config, now, file, pendingSaves, clipboard,
                   restarts, issued, everAssigned, out>>
    /\ UNCHANGED conc

\* startDBusServer: another daemon owns the name, listenForSignals
BecomePassive ==
    /\ mode = "uninitialized"
    /\ mode' = "passive"
    /\ last' = Op("start", Zero, <<>>, "exists", Zero, "nil", history)
    /\ UNCHANGED <<history, nextID, config, now, file, pendingSaves, clipboard,
                   restarts, issued, everAssigned, out>>
    /\ UNCHANGED conc

\* storeNotification(…, replacesID, …), called by `via`
StoreNotification(via, replacesID, p) ==
    LET id == AssignID(replacesID, nextID)
        t1 == now + 1
        mid == Put(history, id, NewNotification(id, p, t1))
        over == OverLimit(mid, config.MaxItems)
        t2 == IF over THEN t1 + 1 ELSE t1
    IN  /\ t2 <= MaxTime
        /\ config.Persist => pendingSaves < MaxPending
        /\ nextID' = AdvanceNextID(replacesID, nextID)
        /\ history' \in (IF over THEN TrimHistory(mid, t2) ELSE {mid})
        /\ now' = t2
        /\ pendingSaves' = IF config.Persist THEN pendingSaves + 1 ELSE pendingSaves
        /\ last' = Op("insert", replacesID, <<>>, via, id, "nil", mid)
        /\ issued' = issued \cup {id}
        /\ everAssigned' = everAssigned \cup {id}
        /\ out' = [NoOut EXCEPT !.updated = <<"notifications:new">>,
                                !.saves = IF config.Persist THEN 1 ELSE 0]
        /\ UNCHANGED <<config, file, mode, clipboard, restarts>>
        /\ UNCHANGED conc

\* a Notify served whatever the mode is
NotifyInAnyMode ==
    \E replacesID \in RepIDs, p \in Payloads :
       StoreNotification("Notify", replacesID, p)

\* notificationServer.Notify
Notify ==
    /\ mode = "primary"
    /\ \E replacesID \in RepIDs, p \in Payloads :
          StoreNotification("Notify", replacesID, p)

\* x, _ := body[i].(T): the value when its dynamic type is T, else T's zero value
AssertOr(v, type, zero) == IF v.type = type THEN v.value ELSE zero

\* the signals the passive listener is handed: a name and a body of nargs
\* values, of which body[1] and the texts body[3], body[4] are modelled, each
\* with its dynamic type
Signals ==
    [name : {"Notify", "NotificationClosed"}, nargs : {7, 8},
     replacesID : [type : {"uint32", "int32"}, value : {Zero, One}],
     texts : [type : {"string", "bytes"}, value : {<<"s1", "b1">>}]]

\* every modelled value of the body has the type handleNotifySignal asserts
WellTyped(sig) == sig.replacesID.type = "uint32" /\ sig.texts.type = "string"

\* listenForSignals' loop body, then handleNotifySignal
ListenForSignals ==
    /\ mode = "passive"
    /\ \E sig \in Signals :
          IF sig.name = "Notify" /\ sig.nargs >= 8
          THEN LET texts == AssertOr(sig.texts, "string", <<"", "">>)
               IN  StoreNotification(IF WellTyped(sig) THEN "signal" ELSE "signal_badtype",
                                     AssertOr(sig.replacesID, "uint32", Zero),
                                     <<texts[1], texts[2], {}>>)
          ELSE /\ last' = Op("signal_ignored", Zero, <<>>, sig.name, Zero, "nil", history)
               /\ out' = NoOut
               /\ UNCHANGED <<history, nextID, config, now, file, pendingSaves,
                              mode, clipboard, restarts, issued, everAssigned>>
               /\ UNCHANGED conc

\* notificationServer.CloseNotification(id)
CloseNotification ==
    /\ mode = "primary"
    /\ \E id \in RepIDs :
          /\ history' = Delete(history, id)
          /\ file' = SavedIfPersist(config, history', file)
          /\ last' = Op("close", Zero, id, "", id, "nil", history)
          /\ out' = [NoOut EXCEPT !.emitted = EmitClosed(id),
                                  !.saves = IF config.Persist THEN 1 ELSE 0]
          /\ UNCHANGED <<nextID, config, now, pendingSaves, mode, clipboard,
                         restarts, issued, everAssigned>>
          /\ UNCHANGED conc

\* a `go saveToFile()` goroutine runs
BackgroundSave ==
    /\ pendingSaves > 0
    /\ pendingSaves' = pendingSaves - 1
    /\ file' = SaveResult(history, file)
    /\ UNCHANGED <<history, nextID, config, now, mode, clipboard, restarts, last,
                   issued, everAssigned, out>>
    /\ UNCHANGED conc

(* ------------------------------ Activate ------------------------------- *)

\* fmt.Sprintf("%s\n%s", n.Summary, n.Body), or n.Body alone for copy_body
CopyContent(action, n) ==
    IF action = ActionCopyBody THEN <<n.Body>> ELSE <<n.Summary, "\n", n.Body>>

\* an Activate whose dismiss goes on after a parse error, with the value
\* ParseUint returned beside it
ActivateWithIgnoringErr(identifier, actionIn) ==
       LET action == IF actionIn = "" THEN ActionDismiss ELSE actionIn
           parsed == ParseUint(identifier)
           id == parsed.val
           err == IF action \in {ActionDismiss, ActionCopy, ActionCopyBody}
                  THEN parsed.err
                  ELSE IF action = ActionDismissAll THEN "nil" ELSE "unknown action"
       IN  /\ last' = Op("activate", Zero, identifier, actionIn, id, err, history)
           /\ UNCHANGED <<nextID, config, now, pendingSaves, mode, restarts,
                          issued, everAssigned>>
           /\ UNCHANGED conc
           /\ CASE action = ActionDismiss ->
                     /\ history' = Delete(history, id)
                     /\ file' = SavedIfPersist(config, history', file)
                     /\ out' = [NoOut EXCEPT !.saves = IF config.Persist THEN 1 ELSE 0]
                     /\ UNCHANGED clipboard
                [] action = ActionDismissAll ->
                     /\ history' = MakeMap
                     /\ file' = SavedIfPersist(config, history', file)
                     /\ out' = [NoOut EXCEPT !.saves = IF config.Persist THEN 1 ELSE 0]
                     /\ UNCHANGED clipboard
                [] /\ action \in {ActionCopy, ActionCopyBody}
                   /\ parsed.err = "nil"
                   /\ id \in DOMAIN history ->
                     /\ clipboard' = CopyContent(action, history[id])
                     /\ out' = [NoOut EXCEPT !.copies = 1]
                     /\ UNCHANGED <<history, file>>
                [] OTHER ->
                     /\ out' = NoOut
                     /\ UNCHANGED <<history, file, clipboard>>

\* Activate(single, identifier, action, ...)
ActivateWith(identifier, actionIn) ==
       LET action == IF actionIn = "" THEN ActionDismiss ELSE actionIn
           parsed == ParseUint(identifier)
           id == parsed.val
           err == IF action \in {ActionDismiss, ActionCopy, ActionCopyBody}
                  THEN parsed.err
                  ELSE IF action = ActionDismissAll THEN "nil" ELSE "unknown action"
       IN  /\ last' = Op("activate", Zero, identifier, actionIn, id, err, history)
           /\ UNCHANGED <<nextID, config, now, pendingSaves, mode, restarts,
                          issued, everAssigned>>
           /\ UNCHANGED conc
           /\ CASE action = ActionDismiss /\ parsed.err = "nil" ->
                     /\ history' = Delete(history, id)
                     /\ file' = SavedIfPersist(config, history', file)
                     /\ out' = [NoOut EXCEPT !.saves = IF config.Persist THEN 1 ELSE 0]
                     /\ UNCHANGED clipboard
                [] action = ActionDismissAll ->
                     /\ history' = MakeMap
                     /\ file' = SavedIfPersist(config, history', file)
                     /\ out' = [NoOut EXCEPT !.saves = IF config.Persist THEN 1 ELSE 0]
                     /\ UNCHANGED clipboard
                [] /\ action \in {ActionCopy, ActionCopyBody}
                   /\ parsed.err = "nil"
                   /\ id \in DOMAIN history ->
                     /\ clipboard' = CopyContent(action, history[id])
                     /\ out' = [NoOut EXCEPT !.copies = 1]
                     /\ UNCHANGED <<history, file>>
                [] OTHER ->
                     /\ out' = NoOut
                     /\ UNCHANGED <<history, file, clipboard>>

\* the host calls Activate
Activate ==
    \E identifier \in Identifiers, actionIn \in ActionInputs :
       ActivateWith(identifier, actionIn)

(* ------------------------------- restart ------------------------------- *)

\* the process ends (goroutines not yet run are lost) and is started again:
\* the package variables are initialised, then Setup() loads the config and,
\* if config.Persist, calls loadFromFile()
Restart ==
    /\ restarts < MaxRestarts
    /\ restarts' = restarts + 1
    /\ \E cfg \in Configs :
          /\ config' = cfg
          /\ history' = IF cfg.Persist THEN LoadHistory(file, MakeMap) ELSE MakeMap
          /\ nextID' \in (IF cfg.Persist THEN LoadNextIDs(file, history', One)
                          ELSE {One})
    /\ pendingSaves' = 0
    /\ mode' = "uninitialized"
    /\ clipboard' = <<>>
    /\ issued' = {}
    /\ last' = Op("setup", Zero, <<>>, "", Zero, "nil", history)
    /\ out' = NoOut
    /\ UNCHANGED <<now, file, everAssigned>>
    /\ UNCHANGED conc

Next ==
    \/ ConnectFails
    \/ RequestFails
    \/ BecomePrimary
    \/ BecomePassive
    \/ Notify
    \/ ListenForSignals
    \/ CloseNotification
    \/ BackgroundSave
    \/ Activate
    \/ Restart

Spec == Init /\ [][Next]_vars

(* ------------------------------ the claims ----------------------------- *)

\* an Insert (storeNotification) has just completed
Inserted == last.op = "insert"
\* ... with replacesID = 0
InsertedFresh == Inserted /\ last.replacesID = Zero
\* ... with a nonzero replacesID
InsertedReplacing == Inserted /\ Gt(last.replacesID, Zero)
\* the keys the Insert's trim removed
Evicted == (DOMAIN last.mid) \ (DOMAIN history)
\* Setup() of a restarted process has just loaded the cache file
Reloaded == last.op = "setup" /\ restarts >= 1 /\ config.Persist /\ file.exists
\* Activate's dismiss of a well-formed identifier has just completed
Dismissed ==
    last.op = "activate" /\ last.action = ActionDismiss /\ ParseUint(last.arg).err = "nil"
\* Activate's dismiss_all has just completed
Cleared == last.op = "activate" /\ last.action = ActionDismissAll
\* CloseNotification has just completed
Closed == last.op = "close"

\* C1: right after every Insert the store holds at most max_items records,
\* whatever reachable state the Insert started from.
C1_CapacityBound == Inserted => Len_(history) <= config.MaxItems

\* C2: an Insert with replacesID = 0 returns an ID strictly greater than every
\* ID an earlier Insert of the same process returned.
C2_FreshIDAboveIssued ==
    InsertedFresh => \A i \in last.preIssued : Gt(last.ret, i)

C4_FreshInsertKeepsRecords ==
    InsertedFresh =>
       /\ last.ret \notin DOMAIN last.pre
       /\ \A k \in DOMAIN last.pre :
             k \in DOMAIN last.mid /\ last.mid[k] = last.pre[k]

\* C5: no Insert returns 0 and no record is ever stored under key 0.
C5_ZeroNeverAssigned ==
    /\ Inserted => last.ret # Zero
    /\ Zero \notin DOMAIN history

\* C6: an Insert that leaves more than max_items records after its put removes
\* exactly one record, the one of strictly oldest time; an Insert that does not
\* exceed the cap removes none; no Insert removes more than one.
C6_EvictsOldestOnce ==
    Inserted =>
       /\ Cardinality(Evicted) <= 1
       /\ OverLimit(last.mid, config.MaxItems) =>
             /\ Cardinality(Evicted) = 1
             /\ \A k \in Evicted : \A j \in (DOMAIN last.mid) \ {k} :
                   last.mid[k].Time < last.mid[j].Time
       /\ ~OverLimit(last.mid, config.MaxItems) => Evicted = {}

\* C7: an Insert whose replacesID is the ID of a stored record replaces that
\* record under the same ID, and leaves the number of records, every other
\* record and nextID unchanged.
C7_ReplaceInPlace ==
    (InsertedReplacing /\ last.replacesID \in DOMAIN last.pre) =>
       /\ last.ret = last.replacesID
       /\ last.replacesID \in DOMAIN history
       /\ history[last.replacesID] = last.mid[last.replacesID]
       /\ Len_(history) = Len_(last.pre)
       /\ \A k \in (DOMAIN last.pre) \ {last.replacesID} :
             k \in DOMAIN history /\ history[k] = last.pre[k]
       /\ nextID = last.preNext

\* C8: an Insert with nonzero replacesID r and no record r in the store creates
\* a record stored under r, returns r and leaves nextID unchanged.
C8_ReplaceAbsentCreates ==
    (InsertedReplacing /\ last.replacesID \notin DOMAIN last.pre) =>
       /\ last.ret = last.replacesID
       /\ last.replacesID \in DOMAIN last.mid
       /\ last.mid[last.replacesID].ID = last.replacesID
       /\ last.replacesID \in DOMAIN history
       /\ history[last.replacesID] = last.mid[last.replacesID]
       /\ nextID = last.preNext

\* C8's case: an absent nonzero replacesID was inserted into a non-empty store
C8_Witness ==
    /\ InsertedReplacing
    /\ last.replacesID \notin DOMAIN last.pre
    /\ last.pre # MakeMap
    /\ Gt(last.preNext, One)

\* C9: dismissing (Activate) or closing (CloseNotification) an ID that is not in
\* the store reports no error and leaves the mapping and nextID as they were.
C9_DismissAbsentNoOp ==
    /\ (Dismissed /\ last.ret \notin DOMAIN last.pre) =>
          last.err = "nil" /\ history = last.pre /\ nextID = last.preNext
    /\ (Closed /\ last.ret \notin DOMAIN last.pre) =>
          last.err = "nil" /\ history = last.pre /\ nextID = last.preNext

\* C9's case: an absent ID was dismissed, or closed, on a non-empty store
C9_Witness ==
    /\ Dismissed \/ Closed
    /\ last.ret \notin DOMAIN last.pre
    /\ last.pre # MakeMap

\* C10: after dismiss_all the store is empty, and the next Insert with
\* replacesID = 0 returns an ID strictly greater than every ID an Insert issued
\* before the clear.
C10_ClearKeepsCounter ==
    [][ /\ Cleared' => history' = MakeMap
        /\ (Cleared /\ InsertedFresh') => \A i \in issued : Gt(last'.ret, i)
      ]_vars

(* ----------------- persistence round trip (SpecRoundTrip) --------------- *)

\* the (summary, body, hints) of clients that send hints: a string-valued hint
\* ("desktop-entry"), or a struct-valued one ("image-data"), whose
\* Variant.Value() is a []interface {}
HintedPayloads == {<<"s1", "b1", {"string"}>>, <<"s1", "b1", {"[]interface {}"}>>}

\* notificationServer.Notify, called with hints
NotifyHinted ==
    /\ mode = "primary"
    /\ \E replacesID \in RepIDs, p \in HintedPayloads :
          StoreNotification("Notify", replacesID, p)

\* saveToFile(), then the process is started again on the file it left, with
\* persist on: the package variables are initialised (empty map, nextID = 1)
\* and Setup() calls loadFromFile()
SaveThenLoad ==
    /\ restarts < MaxRestarts
    /\ config.Persist
    /\ restarts' = restarts + 1
    /\ file' = SaveResult(history, file)
    /\ history' = LoadHistory(file', MakeMap)
    /\ nextID' \in LoadNextIDs(file', history', One)
    /\ pendingSaves' = 0
    /\ mode' = "uninitialized"
    /\ clipboard' = <<>>
    /\ issued' = {}
    /\ last' = Op("roundtrip", Zero, <<>>, "", Zero, "nil", history)
    /\ out' = [NoOut EXCEPT !.saves = 1]
    /\ UNCHANGED <<config, now, everAssigned>>
    /\ UNCHANGED conc

NextRoundTrip ==
    \/ BecomePrimary
    \/ NotifyHinted
    \/ CloseNotification
    \/ BackgroundSave
    \/ SaveThenLoad

SpecRoundTrip == Init /\ [][NextRoundTrip]_vars

RoundTripped == last.op = "roundtrip"

\* C11: saving any reachable store and loading the file into a fresh store
\* (empty map, nextID = 1) gives back exactly the mapping that was saved, and a
\* nextID strictly greater than every restored ID.
C11_RoundTrip ==
    RoundTripped =>
        /\ history = last.pre
        /\ \A k \in DOMAIN history : Gt(nextID, k)

\* the mapping half of C11 on the stores gob can encode
C11_EncodableMappingRestored ==
    (RoundTripped /\ GobEncodable(last.pre)) => history = last.pre

\* the counter half of C11 on the stores that hold no record under 2^32 - 1
C11_CounterAboveRestored ==
    (RoundTripped /\ MaxUint32 \notin DOMAIN history) =>
        \A k \in DOMAIN history : Gt(nextID, k)

(* ------------------------- signals (Spec) ------------------------------ *)

\* C12: in Primary mode every CloseNotification(id) call removes the record
\* under id if there is one, returns no error whether or not there was one, and
\* emits exactly one NotificationClosed signal carrying (id, 3); no other
\* operation (dismiss, dismiss_all, an Insert that evicts or replaces) emits one.
C12_ClosedSignalOnlyOnClose ==
    /\ Closed =>
          /\ history = Delete(last.pre, last.arg)
          /\ last.err = "nil"
          /\ out.emitted = <<[name |-> "NotificationClosed", id |-> last.arg,
                              reason |-> 3]>>
    /\ ~Closed => out.emitted = <<>>

\* a close of a stored record, which emitted
C12_Witness ==
    /\ Closed
    /\ last.arg \in DOMAIN last.pre
    /\ Len(out.emitted) = 1

\* the last signal handled was named Notify and was malformed: fewer than 8
\* values, or 8 with one of a wrong type
MalformedSignal ==
    \/ last.op = "signal_ignored" /\ last.action = "Notify"
    \/ last.op = "insert" /\ last.action = "signal_badtype"

\* C13: in Passive mode a Notify signal with fewer than 8 values, or with 8
\* values of which one has the wrong type, changes neither the store nor
\* nextID and sends no provider-updated message.
C13_MalformedSignalsIgnored ==
    MalformedSignal =>
        /\ history = last.pre
        /\ nextID = last.preNext
        /\ out.updated = <<>>

\* the arity half of C13: a Notify signal with fewer than 8 values is dropped
C13_ShortSignalsIgnored ==
    (last.op = "signal_ignored" /\ last.action = "Notify") =>
        /\ history = last.pre
        /\ nextID = last.preNext
        /\ out.updated = <<>>

(* --------------------- the host's calls (SpecHost) ---------------------- *)

\* the identifier strings a host can pass: "1", "", "x" and "4294967296"
AllIdentifiers ==
    { <<"1">>, <<>>, <<"x">>, <<"4", "2", "9", "4", "9", "6", "7", "2", "9", "6">> }

\* the action strings a host can pass: the four actions, "" and one unknown
AllActions ==
    {ActionDismiss, ActionDismissAll, ActionCopy, ActionCopyBody, "", "open"}

\* the host calls Activate with any identifier and action
HostActivate ==
    \E identifier \in AllIdentifiers, actionIn \in AllActions :
       ActivateWith(identifier, actionIn)

\* v / 10 and v % 10 of a uint32, by long division over the two halves
DivMod10(v) ==
    LET low == (v[1] % 10) * Half + v[2]
    IN  [quot |-> U32(v[1] \div 10, low \div 10), rem |-> low % 10]

\* the character of a digit
DigitOf(d) == DigitChars[d + 1]

\* strconv.FormatUint(uint64(id), 10)
RECURSIVE FormatUint(_)
FormatUint(v) ==
    LET dm == DivMod10(v)
    IN  IF dm.quot = Zero THEN <<DigitOf(dm.rem)>>
        ELSE Append(FormatUint(dm.quot), DigitOf(dm.rem))

\* the orders `for _, n := range history` can visit the keys in
RECURSIVE RangeOrders(_)
RangeOrders(keys) ==
    IF keys = {} THEN {<<>>}
    ELSE UNION {{<<k>> \o rest : rest \in RangeOrders(keys \ {k})} : k \in keys}

\* config.MinScore, set in Setup()
MinScore == 30

\* the scores common.FuzzyScore can give an item: at the threshold and above it
FuzzyScores == {MinScore, MinScore + 1}

\* a comparison that puts the older record first
OlderFirst(a, b, h) ==
    LET idA == ParseUint(a.Identifier).val
        idB == ParseUint(b.Identifier).val
    IN  IF idA \notin DOMAIN h \/ idB \notin DOMAIN h THEN 0
        ELSE IF h[idA].Time < h[idB].Time THEN -1
        ELSE IF h[idA].Time > h[idB].Time THEN 1 ELSE 0

\* the comparison Query sorts with: nB.Time.Compare(nA.Time), the records
\* looked up by the parsed identifiers, 0 when one is missing
NewerFirst(a, b, h) ==
    LET idA == ParseUint(a.Identifier).val
        idB == ParseUint(b.Identifier).val
    IN  IF idA \notin DOMAIN h \/ idB \notin DOMAIN h THEN 0
        ELSE IF h[idB].Time < h[idA].Time THEN -1
        ELSE IF h[idB].Time > h[idA].Time THEN 1 ELSE 0

\* e put into the sorted sequence s before the first item it sorts before
RECURSIVE InsertSorted(_, _, _)
InsertSorted(s, e, h) ==
    IF s = <<>> THEN <<e>>
    ELSE IF NewerFirst(e, Head(s), h) < 0 THEN <<e>> \o s
    ELSE <<Head(s)>> \o InsertSorted(Tail(s), e, h)

\* slices.SortStableFunc(entries, ...): items that compare equal keep their order
RECURSIVE SortStable(_, _)
SortStable(entries, h) ==
    IF entries = <<>> THEN <<>>
    ELSE InsertSorted(SortStable(SubSeq(entries, 1, Len(entries) - 1), h),
                      entries[Len(entries)], h)

\* entries[k].Score = int32(10000 - k), k counted from 0
RankScores(entries) ==
    [i \in 1 .. Len(entries) |-> [entries[i] EXCEPT !.Score = 10000 - (i - 1)]]

\* the item Query builds for a record
Item(n, score) == [Identifier |-> FormatUint(n.ID), Score |-> score]

\* the items of the records in order, less those the scores drop
RECURSIVE Matches(_, _, _)
Matches(order, h, scores) ==
    IF order = <<>> THEN <<>>
    ELSE LET k == Head(order)
             rest == Matches(Tail(order), h, scores)
         IN  IF scores[k] > MinScore THEN <<Item(h[k], scores[k])>> \o rest ELSE rest

\* every item appended, for the empty query
AllEntries(order, h) == [i \in 1 .. Len(order) |-> Item(h[order[i]], 0)]

\* Query(conn, query, ...): the host searches, with "" or with a text
Query ==
    \E query \in {<<>>, <<"s">>}, order \in RangeOrders(DOMAIN history) :
       /\ IF query = <<>>
          THEN out' = [NoOut EXCEPT
                          !.reply = RankScores(SortStable(AllEntries(order, history),
                                                          history))]
          ELSE \E scores \in [DOMAIN history -> FuzzyScores] :
                  out' = [NoOut EXCEPT !.reply = Matches(order, history, scores)]
       /\ last' = Op("query", Zero, query, "", Zero, "nil", history)
       /\ UNCHANGED <<history, nextID, config, now, file, pendingSaves, mode,
                      clipboard, restarts, issued, everAssigned>>
       /\ UNCHANGED conc

\* State(provider): the count, and dismiss_all when there is a record
State ==
    /\ out' = [NoOut EXCEPT
                  !.reply = <<[States |-> Len_(history),
                               Actions |-> IF Len_(history) > 0
                                           THEN <<ActionDismissAll>> ELSE <<>>]>>]
    /\ last' = Op("state", Zero, <<>>, "", Zero, "nil", history)
    /\ UNCHANGED <<history, nextID, config, now, file, pendingSaves, mode,
                   clipboard, restarts, issued, everAssigned>>
    /\ UNCHANGED conc

NextHost ==
    \/ BecomePrimary
    \/ Notify
    \/ BackgroundSave
    \/ HostActivate
    \/ Query
    \/ State

SpecHost == Init /\ [][NextHost]_vars

Activated == last.op = "activate"

\* the action Activate ran: "" stands for dismiss
ActionRun == IF last.action = "" THEN ActionDismiss ELSE last.action

\* the last Activate failed: an action outside the four, or an action that needs
\* an ID with an identifier that is no base-10 uint32
ActivationFailed ==
    /\ Activated
    /\ \/ ActionRun \notin {ActionDismiss, ActionDismissAll, ActionCopy, ActionCopyBody}
       \/ /\ ActionRun \in {ActionDismiss, ActionCopy, ActionCopyBody}
          /\ last.err # "nil"

\* C14: an Activate with an unknown action, or with dismiss, copy, copy_body
\* (or "") and an identifier that does not parse as a base-10 uint32, changes
\* neither the store nor nextID, makes no persistence write and sends nothing
\* to the clipboard.
C14_ActivationErrorsNoEffect ==
    [][(last' # last /\ ActivationFailed') =>
          /\ history' = history
          /\ nextID' = nextID
          /\ file' = file
          /\ pendingSaves' = pendingSaves
          /\ out'.saves = 0
          /\ clipboard' = clipboard
          /\ out'.copies = 0]_vars

\* a dismiss of "4294967296" from a store that holds a record and a file
C14_Witness ==
    /\ ActivationFailed
    /\ last.err = "range"
    /\ ActionRun = ActionDismiss
    /\ last.pre # MakeMap
    /\ config.Persist

Queried == last.op = "query"
QueriedAll == Queried /\ last.arg = <<>>

\* the record an item stands for
RecordOf(item) == history[CHOOSE k \in DOMAIN history : FormatUint(k) = item.Identifier]

\* C15: Query("") returns exactly one item per stored record, newest record
\* first, the item at rank k (from 0) with score 10000 - k; Query changes neither
\* the store nor nextID.
C15_EmptyQueryNewestFirst ==
    /\ Queried => history = last.pre /\ nextID = last.preNext
    /\ QueriedAll =>
          /\ Len(out.reply) = Len_(history)
          /\ {out.reply[i].Identifier : i \in 1 .. Len(out.reply)}
                = {FormatUint(k) : k \in DOMAIN history}
          /\ \A i, j \in 1 .. Len(out.reply) :
                i < j => /\ RecordOf(out.reply[i]).Time >= RecordOf(out.reply[j]).Time
                         /\ out.reply[i].Score > out.reply[j].Score
          /\ \A i \in 1 .. Len(out.reply) : out.reply[i].Score = 10000 - (i - 1)

\* a query of two records of which the one with the larger ID is the older
C15_Witness ==
    /\ QueriedAll
    /\ Len(out.reply) = 2
    /\ Lt(RecordOf(out.reply[1]).ID, RecordOf(out.reply[2]).ID)

(* ----------------------------- the mode (Spec) -------------------------- *)

\* startDBusServer took its decision in this step
Started == mode = "uninitialized" /\ mode' # "uninitialized"

\* a bus-originated Insert happened in this step
BusInsert == last' # last /\ last'.op = "insert"

\* the mode stays what it is while the process runs, and Inserts come through
\* Notify calls in Primary mode and through observed signals in Passive mode only
ModeKept ==
    /\ (mode # "uninitialized" /\ restarts' = restarts) => mode' = mode
    /\ BusInsert =>
          \/ last'.action = "Notify" /\ mode = "primary"
          \/ last'.action \in {"signal", "signal_badtype"} /\ mode = "passive"

ConcCalls ==
    {<<Zero, <<"s1", "b1", {}>>>>, <<One, <<"s1", "b1", {}>>>>,
     <<Zero, <<"s1", "b1", {"[]interface {}"}>>>>}

\* an exclusive lock that does not wait for the readers to leave
CanLockBesideReaders(m) == m.writer = ""

\* mu.Lock() returns: no writer and no reader holds mu
CanLock(m) == m.writer = "" /\ m.readers = {}

\* a read lock that does not wait for the writer to leave
CanRLockBesideWriter(m) == TRUE

\* mu.RLock() returns: no writer holds mu
CanRLock(m) == m.writer = ""

\* the goroutine of S a new call or `go` statement runs on: the first idle one
FirstIdle(S) ==
    LET idle == {g \in S : pc[g] = "idle"}
    IN  IF idle = {} THEN {}
        ELSE IF idle \cap {"bus1", "save1"} # {} THEN idle \cap {"bus1", "save1"}
        ELSE idle

\* storeNotification: mu.Lock() returns
StoreLock(g) ==
    /\ pc[g] = "idle"
    /\ CanLock(mu)
    /\ now + 2 <= MaxTime
    /\ config.Persist => FirstIdle(Savers) # {}
    /\ \E call \in ConcCalls :
          loc' = [loc EXCEPT ![g] = [fn |-> "insert", id |-> call[1],
                                     buf |-> {call}, sent |-> 0]]
    /\ mu' = [mu EXCEPT !.writer = g]
    /\ pc' = [pc EXCEPT ![g] = "put"]
    /\ UNCHANGED <<history, nextID, config, now, file, pendingSaves, mode,
                   clipboard, restarts, last, issued, everAssigned, out>>

\* storeNotification: the ID is assigned and history[id] = notification
StorePut(g) ==
    /\ pc[g] = "put"
    /\ LET call == CHOOSE c \in loc[g].buf : TRUE
           id == AssignID(call[1], nextID)
       IN  /\ nextID' = AdvanceNextID(call[1], nextID)
           /\ now' = now + 1
           /\ history' = Put(history, id, NewNotification(id, call[2], now'))
           /\ loc' = [loc EXCEPT ![g].id = id, ![g].buf = {}]
           /\ pc' = [pc EXCEPT ![g] = IF OverLimit(history', config.MaxItems)
                                      THEN "trim" ELSE "spawn"]
    /\ UNCHANGED <<config, file, pendingSaves, mode, clipboard, restarts, last,
                   issued, everAssigned, out, mu>>

\* storeNotification: trimHistory()
StoreTrim(g) ==
    /\ pc[g] = "trim"
    /\ now' = now + 1
    /\ history' \in TrimHistory(history, now')
    /\ pc' = [pc EXCEPT ![g] = "spawn"]
    /\ UNCHANGED <<nextID, config, file, pendingSaves, mode, clipboard, restarts,
                   last, issued, everAssigned, out, mu, loc>>

\* storeNotification: if config.Persist { go saveToFile() }
StoreSpawn(g) ==
    /\ pc[g] = "spawn"
    /\ IF config.Persist
       THEN \E s \in FirstIdle(Savers) :
               /\ pc' = [pc EXCEPT ![g] = "send", ![s] = "rlock"]
               /\ loc' = [loc EXCEPT ![s].fn = "save"]
       ELSE /\ pc' = [pc EXCEPT ![g] = "send"]
            /\ UNCHANGED loc
    /\ UNCHANGED <<history, nextID, config, now, file, pendingSaves, mode,
                   clipboard, restarts, last, issued, everAssigned, out, mu>>

\* the host's receiver of handlers.ProviderUpdated can take a message: it hands
\* each message to the subscribers, calls nothing of this package, and comes
\* back to the channel
ReceiverReady == TRUE

\* a send that puts the message on the channel twice
StoreSendTwice(g) ==
    /\ pc[g] = "send"
    /\ ReceiverReady
    /\ loc' = [loc EXCEPT ![g].sent = @ + 2]
    /\ pc' = [pc EXCEPT ![g] = "return"]
    /\ UNCHANGED <<history, nextID, config, now, file, pendingSaves, mode,
                   clipboard, restarts, last, issued, everAssigned, out, mu>>

\* storeNotification: handlers.ProviderUpdated <- "notifications:new" goes
\* through when the host's receiver takes the message
StoreSend(g) ==
    /\ pc[g] = "send"
    /\ ReceiverReady
    /\ loc' = [loc EXCEPT ![g].sent = @ + 1]
    /\ pc' = [pc EXCEPT ![g] = "return"]
    /\ UNCHANGED <<history, nextID, config, now, file, pendingSaves, mode,
                   clipboard, restarts, last, issued, everAssigned, out, mu>>

\* storeNotification: return id, and the deferred mu.Unlock()
StoreReturn(g) ==
    /\ pc[g] = "return"
    /\ mu' = [mu EXCEPT !.writer = ""]
    /\ pc' = [pc EXCEPT ![g] = "idle"]
    /\ loc' = [loc EXCEPT ![g] = NoLocals[g]]
    /\ UNCHANGED <<history, nextID, config, now, file, pendingSaves, mode,
                   clipboard, restarts, last, issued, everAssigned, out>>

\* CloseNotification(1) on a bus goroutine, Activate("1", dismiss) or
\* Activate(_, dismiss_all) on the host's: mu.Lock(), the delete (or the new
\* map), mu.Unlock(); then saveToFile() if config.Persist, else the return
RemoveLocked(g) ==
    /\ pc[g] = "idle"
    /\ CanLock(mu)
    /\ \E fn \in (IF g \in BusCalls THEN {"close"} ELSE {ActionDismiss, ActionDismissAll}) :
          LET l == [fn |-> fn, id |-> One, buf |-> {}, sent |-> 0]
          IN  /\ history' = IF fn = ActionDismissAll THEN MakeMap
                            ELSE Delete(history, l.id)
              /\ IF config.Persist
                 THEN /\ loc' = [loc EXCEPT ![g] = l]
                      /\ pc' = [pc EXCEPT ![g] = "rlock"]
                 ELSE UNCHANGED <<loc, pc>>
    /\ UNCHANGED <<nextID, config, now, file, pendingSaves, mode, clipboard,
                   restarts, last, issued, everAssigned, out, mu>>

\* Query or State: mu.RLock() returns, and history is ranged over or counted
ReadLocked(g) ==
    /\ pc[g] = "idle"
    /\ CanRLock(mu)
    /\ \E fn \in {"query", "state"} :
          loc' = [loc EXCEPT ![g] = [fn |-> fn, id |-> Zero, buf |-> GobEncode(history),
                                     sent |-> 0]]
    /\ mu' = [mu EXCEPT !.readers = @ \cup {g}]
    /\ pc' = [pc EXCEPT ![g] = "read"]
    /\ UNCHANGED <<history, nextID, config, now, file, pendingSaves, mode,
                   clipboard, restarts, last, issued, everAssigned, out>>

\* Query or State: mu.RUnlock() and the return
ReadReturn(g) ==
    /\ pc[g] = "read"
    /\ mu' = [mu EXCEPT !.readers = @ \ {g}]
    /\ pc' = [pc EXCEPT ![g] = "idle"]
    /\ loc' = [loc EXCEPT ![g] = NoLocals[g]]
    /\ UNCHANGED <<history, nextID, config, now, file, pendingSaves, mode,
                   clipboard, restarts, last, issued, everAssigned, out>>

\* saveToFile: mu.RLock() returns
SaveLock(g) ==
    /\ pc[g] = "rlock"
    /\ CanRLock(mu)
    /\ mu' = [mu EXCEPT !.readers = @ \cup {g}]
    /\ pc' = [pc EXCEPT ![g] = "encode"]
    /\ UNCHANGED <<history, nextID, config, now, file, pendingSaves, mode,
                   clipboard, restarts, last, issued, everAssigned, out, loc>>

\* saveToFile: encoder.Encode(history) fills the buffer, or fails
SaveEncode(g) ==
    /\ pc[g] = "encode"
    /\ IF GobEncodable(history)
       THEN /\ loc' = [loc EXCEPT ![g].buf = GobEncode(history)]
            /\ pc' = [pc EXCEPT ![g] = "write"]
       ELSE /\ pc' = [pc EXCEPT ![g] = "runlock"]
            /\ UNCHANGED loc
    /\ UNCHANGED <<history, nextID, config, now, file, pendingSaves, mode,
                   clipboard, restarts, last, issued, everAssigned, out, mu>>

\* saveToFile: os.WriteFile(file, b.Bytes(), 0o600)
SaveWrite(g) ==
    /\ pc[g] = "write"
    /\ file' = [exists |-> TRUE, data |-> loc[g].buf]
    /\ pc' = [pc EXCEPT ![g] = "runlock"]
    /\ UNCHANGED <<history, nextID, config, now, pendingSaves, mode, clipboard,
                   restarts, last, issued, everAssigned, out, mu, loc>>

\* saveToFile: the deferred mu.RUnlock() and the return; the goroutine ends,
\* or the handler that called saveToFile() returns (CloseNotification after
\* it has emitted the signal)
SaveReturn(g) ==
    /\ pc[g] = "runlock"
    /\ mu' = [mu EXCEPT !.readers = @ \ {g}]
    /\ pc' = [pc EXCEPT ![g] = "idle"]
    /\ loc' = [loc EXCEPT ![g] = NoLocals[g]]
    /\ UNCHANGED <<history, nextID, config, now, file, pendingSaves, mode,
                   clipboard, restarts, last, issued, everAssigned, out>>

\* the steps of one goroutine
Step(g) ==
    \/ StorePut(g)
    \/ StoreTrim(g)
    \/ StoreSpawn(g)
    \/ StoreSend(g)
    \/ StoreReturn(g)
    \/ ReadReturn(g)
    \/ SaveLock(g)
    \/ SaveEncode(g)
    \/ SaveWrite(g)
    \/ SaveReturn(g)

\* a call arrives and takes mu
Called ==
    \/ \E g \in FirstIdle(BusCalls) : StoreLock(g)
    \/ \E g \in FirstIdle(BusCalls) \cup HostCalls : RemoveLocked(g)
    \/ \E g \in HostCalls : ReadLocked(g)

NextConc ==
    \/ Called
    \/ \E g \in Goroutines : Step(g)

\* the process as the primary owner, its methods exported, and the goroutines
\* at p
InitPrimary(p) ==
    /\ history = MakeMap
    /\ nextID = One
    /\ config \in Configs
    /\ now = 0
    /\ file = NoFile
    /\ pendingSaves = 0
    /\ mode = "primary"
    /\ clipboard = <<>>
    /\ restarts = 0
    /\ last = [op |-> "setup", replacesID |-> Zero, arg |-> <<>>, action |-> "",
               ret |-> Zero, err |-> "nil", mid |-> MakeMap, pre |-> MakeMap, preNext |-> One,
               preIssued |-> {}, preFile |-> NoFile, preClipboard |-> <<>>,
               preConfig |-> config]
    /\ issued = {}
    /\ everAssigned = {}
    /\ out = NoOut
    /\ mu = Unlocked
    /\ pc = p
    /\ loc = NoLocals

InitConc == InitPrimary(Idle)

SpecConc == InitConc /\ [][NextConc]_vars

\* g holds mu, exclusively or shared
Holding(g) == mu.writer = g \/ g \in mu.readers

\* g is at a place of its function where it reads or writes history
InStore(g) ==
    pc[g] \in {"put", "trim", "spawn", "send", "return", "read", "encode", "write",
               "runlock"}

\* C16: while an Insert is between its map write and its eviction, no reader
\* (Query, State, a save) is reading the store or starts to, no other Insert or
\* removal is at work or starts, and the only change of the store is the
\* Insert's own eviction; so a reader sees the store as it is before or after
\* an Insert.
C16_InsertAtomic ==
    [][\A g \in BusCalls :
          pc[g] = "trim" =>
             /\ mu.writer = g
             /\ \A h \in Goroutines \ {g} : ~InStore(h) /\ ~InStore(h)'
             /\ history' # history => pc'[g] = "spawn"]_vars

\* an Insert is over the limit and has not evicted yet, while a save started
\* by an earlier Insert and the save of a CloseNotification wait for mu
C16_Witness ==
    /\ pc["bus1"] = "trim"
    /\ pc["save1"] = "rlock"
    /\ pc["bus2"] = "rlock"

\* C20: a save encodes and writes while it holds the read lock, no mutation
\* takes effect between its encoding and its write, and every write puts the
\* file at the mapping as it is at the time of the write, so the file never
\* goes back to an older state.
C20_SavesWriteCurrentState ==
    [][/\ \A g \in Goroutines :
             pc[g] \in {"encode", "write"} => (g \in mu.readers /\ history' = history)
       /\ \A g \in Goroutines : pc[g] = "write" => loc[g].buf = GobEncode(history)
       /\ file' # file => file' = SaveToFile(history)]_vars

\* a background save and the save of a dismiss are both about to write
C20_Witness ==
    /\ pc["save1"] = "write"
    /\ pc["host"] = "write"
    /\ file.exists
    /\ file.data # GobEncode(history)

(* --------------------- fair scheduling (SpecLive) ----------------------- *)

\* Every goroutine that can take a step is scheduled: those that hold mu go on,
\* the host's receiver takes the message an Insert sends, and a goroutine that
\* waits in mu.RLock() gets the lock when it is free again and again
\* (sync.RWMutex starves neither readers nor writers). Calls arrive or not.
Fairness ==
    \A g \in Goroutines :
       /\ WF_vars(StorePut(g) \/ StoreTrim(g) \/ StoreSpawn(g) \/ StoreSend(g)
                  \/ StoreReturn(g) \/ ReadReturn(g) \/ SaveEncode(g)
                  \/ SaveWrite(g) \/ SaveReturn(g))
       /\ SF_vars(SaveLock(g))

\* one `go saveToFile()` goroutine at a time: the second one is never started
InitLive == InitPrimary([Idle EXCEPT !["save2"] = "off"])

SpecLive == InitLive /\ [][NextConc]_vars /\ Fairness

\* the file holds the mapping: it is the encoding of history, or there is no
\* file and no record (nothing was ever stored or removed)
Durable == file = SaveToFile(history) \/ (~file.exists /\ history = MakeMap)

\* C17: with persistence on, writes succeeding and the saves scheduled, after
\* the last mutation (the store changes finitely often: the clock ends at
\* MaxTime and removals only shrink the store) the file comes to equal the
\* mapping and stays equal to it.
C17_EventuallyDurable == <>[](config.Persist => Durable)

\* C17 for the stores that end up gob-encodable
C17_EncodableEventuallyDurable ==
    <>[]((config.Persist /\ GobEncodable(history)) => Durable)

====
